---- MODULE Spec2Model ----
(***************************************************************************)
(* Model of the docker_machine inventory plugin (src/docker_machine.py):   *)
(* InventoryModule.parse and InventoryModule._populate, the inventory they *)
(* mutate and the docker-machine commands they run.                        *)
(*                                                                         *)
(* Spec      the program: a caller calls parse() or _populate(); the       *)
(*           answers of docker-machine and the options are inputs.         *)
(* SpecTags  the tag code of lines 131 to 136 applied to every tag string. *)
(* SpecEnv   the env code of lines 122 to 124 applied to every env text.   *)
(*                                                                         *)
(* Python evaluates the arguments of a call before the call, and           *)
(* '...{1}...'.format(x) with one positional argument raises IndexError:   *)
(* positional fields count from 0.  Every str.format call of the source is *)
(* modelled by StrFormatRaises with the field numbers and the argument     *)
(* count its line has.  The body of the loop of line 93 is one action,     *)
(* ProcessNode: the program is sequential, and its statements are the      *)
(* operators InspectNode .. ApplyRules, composed in source order, each     *)
(* passing on the exception of an earlier one.                             *)
(*                                                                         *)
(* Text that the code cuts (the tag string) is a sequence of one-character *)
(* strings, so that str.split and the `in` test are computed.              *)
(***************************************************************************)
EXTENDS Integers, Sequences, FiniteSets, TLC

\* ------------------------------------------------------------------ bounds
MaxNodes == 2
MaxTagLen == 3
MaxEnvLines == 4

\* ------------------------------------------------------------ exceptions
NoExc == "none"

\* ------------------------------------------------------------------ text
\* Does sep occur in s at position i (1-based)?
OccursAt(s, sep, i) ==
    /\ i >= 1
    /\ i + Len(sep) - 1 <= Len(s)
    /\ \A j \in 1..Len(sep) : s[i + j - 1] = sep[j]

\* str.find: the first position >= from at which sep occurs, 0 when none.
RECURSIVE StrFind(_, _, _)
StrFind(s, sep, from) ==
    IF from + Len(sep) - 1 > Len(s) THEN 0
    ELSE IF OccursAt(s, sep, from) THEN from
    ELSE StrFind(s, sep, from + 1)

\* `sep in s` of Python: the empty string occurs in every string.
StrContains(s, sep) == Len(sep) = 0 \/ StrFind(s, sep, 1) # 0

\* str.split(sep) for a non-empty sep: cut at every occurrence, left to right;
\* ''.split(',') is [''].
RECURSIVE StrSplit(_, _)
StrSplit(s, sep) ==
    LET i == StrFind(s, sep, 1) IN
    IF i = 0 THEN <<s>>
    ELSE <<SubSeq(s, 1, i - 1)>> \o StrSplit(SubSeq(s, i + Len(sep), Len(s)), sep)

\* ------------------------------------------------------------ str.format
\* PyIndex as the source's format strings take it: positional fields counted
\* from 1.
PyIndexFromOne(field) == field

\* Positional field {n} of str.format names the argument at index n, counted
\* from 0: the (n+1)-th argument.
PyIndex(field) == field + 1

\* '<text with the fields>'.format(<nargs arguments>) raises IndexError when a
\* field names an argument that was not passed.
StrFormatRaises(fields, nargs) == \E f \in fields : PyIndex(f) > nargs

\* The argument a field is replaced by.
FormatArg(field, args) == args[PyIndex(field)]

\* --------------------------------------------------------- inventory API
EmptyInventory == [hosts |-> {}, groups |-> {}, members |-> {}, vars |-> {}]

\* self.inventory.add_group(name): the group exists afterwards.
AddGroup(inv, g) == [inv EXCEPT !.groups = @ \cup {g}]

\* self.inventory.add_host(id): the host exists afterwards.
AddHost(inv, h) == [inv EXCEPT !.hosts = @ \cup {h}]

\* self.inventory.add_host(id, group=g): the host exists and is a member of g.
AddHostToGroup(inv, h, g) ==
    [inv EXCEPT !.hosts = @ \cup {h}, !.members = @ \cup {<<g, h>>}]

\* self.inventory.set_variable(id, name, value): the host's variable name is
\* value afterwards, whatever it was.
SetVariable(inv, h, name, value) ==
    [inv EXCEPT !.vars =
        {t \in @ : ~(t[1] = h /\ t[2] = name)} \cup {<<h, name, value>>}]

\* ----------------------------------------------- the state of one pass
\* inv: the inventory; ev: the commands run and inventory calls made, in
\* order, each with the position of the node it was made for; exc: the
\* exception in flight; tagLog: how each tag element read so far was taken.
Raise(s, e) == [s EXCEPT !.exc = e]
Emit(s, pos, op, detail) == [s EXCEPT !.ev = Append(@, <<pos, op, detail>>)]
Failed(s) == s.exc # NoExc

\* display.debug('...'.format(...)): the text is built first.
DebugFormat(s, fields, nargs) ==
    IF Failed(s) THEN s
    ELSE IF StrFormatRaises(fields, nargs) THEN Raise(s, "IndexError")
    ELSE s

\* An inventory call made for the node at position pos.
InvCall(s, pos, op, detail, inv2) ==
    [s EXCEPT !.inv = inv2, !.ev = Append(@, <<pos, op, detail>>)]

\* ------------------------------------------------- the node descriptor
\* json.loads of the inspect output: a dict; `missing` holds the key paths the
\* JSON does not have.
RequiredPaths ==
    {"Driver", "Driver.MachineName", "DriverName", "Driver.IPAddress",
     "Driver.SSHPort", "Driver.SSHUser", "Driver.SSHKeyPath", "Driver.Tags"}

\* node_attrs[...][...] raises KeyError when a key of the path is absent.
KeyMissing(desc, path) ==
    \/ path \in desc.missing
    \/ path # "DriverName" /\ "Driver" \in desc.missing

\* Variable names: a literal prefix and the formatted-in part.
Plain(name) == <<name, <<>>>>

\* ---------------------------------------------------- lines 94 to 95
InspectNode(s, pos, node, insp) ==
    LET s94 == DebugFormat(s, {1}, 1)
        s95 == IF Failed(s94) THEN s94 ELSE Emit(s94, pos, "inspect", <<node>>)
    IN  IF Failed(s95) THEN s95
        ELSE IF insp.kind = "failed" THEN Raise(s95, "CalledProcessError")
        ELSE IF insp.kind = "malformed" THEN Raise(s95, "ValueError")
        ELSE s95

\* ---------------------------------------------------- lines 97 to 101
RegisterHost(s, pos, desc) ==
    LET id == desc.MachineName
        drv == desc.DriverName
        s97 == IF Failed(s) THEN s
               ELSE IF KeyMissing(desc, "Driver.MachineName") THEN Raise(s, "KeyError")
               ELSE s
        s98 == IF Failed(s97) THEN s97
               ELSE InvCall(s97, pos, "add_host", <<id>>, AddHost(s97.inv, id))
        s99 == IF Failed(s98) THEN s98
               ELSE IF KeyMissing(desc, "DriverName") THEN Raise(s98, "KeyError")
               ELSE InvCall(s98, pos, "add_group", <<drv>>, AddGroup(s98.inv, drv))
        s100 == IF Failed(s99) THEN s99
                ELSE InvCall(s99, pos, "add_host", <<id, drv>>,
                             AddHostToGroup(s99.inv, id, drv))
    IN  IF Failed(s100) THEN s100
        ELSE InvCall(s100, pos, "add_host", <<id, "all">>,
                     AddHostToGroup(s100.inv, id, "all"))

\* ---------------------------------------------------- lines 104 to 108
\* set_variable(id, name, node_attrs['Driver'][key])
SetFieldVar(s, pos, id, name, desc, path, value) ==
    IF Failed(s) THEN s
    ELSE IF KeyMissing(desc, path) THEN Raise(s, "KeyError")
    ELSE InvCall(s, pos, "set_variable", <<id, name>>,
                 SetVariable(s.inv, id, Plain(name), <<value>>))

SetConnectionVars(s, pos, desc) ==
    LET id == desc.MachineName
        s104 == SetFieldVar(s, pos, id, "ansible_host", desc,
                            "Driver.IPAddress", desc.IPAddress)
        s105 == SetFieldVar(s104, pos, id, "ansible_port", desc,
                            "Driver.SSHPort", desc.SSHPort)
        s106 == SetFieldVar(s105, pos, id, "ansible_user", desc,
                            "Driver.SSHUser", desc.SSHUser)
        s107 == IF Failed(s106) THEN s106
                ELSE InvCall(s106, pos, "set_variable",
                             <<id, "ansible_ssh_common_args">>,
                             SetVariable(s106.inv, id, Plain("ansible_ssh_common_args"),
                                         <<"-o StrictHostKeyChecking=no">>))
    IN  SetFieldVar(s107, pos, id, "ansible_ssh_private_key_file", desc,
                    "Driver.SSHKeyPath", desc.SSHKeyPath)

\* ---------------------------------------------------- lines 111 to 112
RunEnv(s, pos, id, env) ==
    LET s111 == DebugFormat(s, {1}, 1)
        s112 == IF Failed(s111) THEN s111 ELSE Emit(s111, pos, "env", <<id>>)
    IN  IF Failed(s112) THEN s112
        ELSE IF env.kind = "failed" THEN Raise(s112, "CalledProcessError")
        ELSE s112

\* ---------------------------------------------------- lines 122 to 124
EnvVarNames ==
    <<"DOCKER_TLS_VERIFY", "DOCKER_HOST", "DOCKER_CERT_PATH", "DOCKER_MACHINE_NAME">>

\* re.search('NAME="([^"]+)"', env_out): the env text is a sequence of
\* <<name, value>> for the NAME="value" it holds, in order; the pattern matches the
\* first NAME="..." whose value is not empty.  0: no match (None).
RECURSIVE ReSearch(_, _, _)
ReSearch(name, text, from) ==
    IF from > Len(text) THEN 0
    ELSE IF text[from][1] = name /\ text[from][2] # "" THEN from
    ELSE ReSearch(name, text, from + 1)

\* One turn of the loop of line 122.
EnvStep(s, pos, id, name, text) ==
    IF Failed(s) THEN s
    ELSE IF StrFormatRaises({1}, 1) THEN Raise(s, "IndexError")       \* line 123, format
    ELSE LET m == ReSearch(FormatArg(1, <<name>>), text, 1) IN
         IF m = 0 THEN Raise(s, "AttributeError")                    \* None.group(1)
         ELSE IF StrFormatRaises({1}, 1) THEN Raise(s, "IndexError")  \* line 124, format
         ELSE InvCall(s, pos, "set_variable", <<id, "dm_">>,
                      SetVariable(s.inv, id, <<"dm_", <<FormatArg(1, <<name>>)>>>>,
                                  <<text[m][2]>>))

RECURSIVE EnvLoop(_, _, _, _, _)
EnvLoop(s, pos, id, text, i) ==
    IF i > Len(EnvVarNames) \/ Failed(s) THEN s
    ELSE EnvLoop(EnvStep(s, pos, id, EnvVarNames[i], text), pos, id, text, i + 1)

\* ---------------------------------------------------- lines 127 to 136
\* Lines 132, 133 and 135: how one element of tags.split(',') is taken.
\* <<"pair", k, v>>, <<"bare", element, <<>>>> or, when `k, v = ...` cannot unpack
\* (kv_pair.split(sep) is not of length 2, or sep is empty), <<"ValueError", ...>>.
ParseTag(kv_pair, split_tags, split_separator) ==
    IF split_tags /\ StrContains(kv_pair, split_separator)
    THEN IF Len(split_separator) = 0 THEN <<"ValueError", kv_pair, <<>>>>
         ELSE LET parts == StrSplit(kv_pair, split_separator) IN
              IF Len(parts) = 2 THEN <<"pair", parts[1], parts[2]>>
              ELSE <<"ValueError", kv_pair, <<>>>>
    ELSE <<"bare", kv_pair, <<>>>>

\* One turn of the loop of line 131.
TagStep(s, pos, id, kv_pair, cfg) ==
    IF Failed(s) THEN s
    ELSE LET p == ParseTag(kv_pair, cfg.split_tags, cfg.split_separator)
             s1 == [s EXCEPT !.tagLog = Append(@, p)]
         IN  IF p[1] = "ValueError" THEN Raise(s1, "ValueError")        \* line 133
             ELSE IF StrFormatRaises({1}, 1) THEN Raise(s1, "IndexError") \* 134, 136: format
             ELSE IF p[1] = "pair"
             THEN InvCall(s1, pos, "set_variable", <<id, "dm_tag_">>,     \* line 134
                          SetVariable(s1.inv, id,
                                      <<"dm_tag_", FormatArg(1, <<p[2]>>)>>, p[3]))
             ELSE Raise(s1, "TypeError")   \* line 136: set_variable without the value

RECURSIVE TagLoop(_, _, _, _, _, _)
TagLoop(s, pos, id, elems, cfg, i) ==
    IF i > Len(elems) \/ Failed(s) THEN s
    ELSE TagLoop(TagStep(s, pos, id, elems[i], cfg), pos, id, elems, cfg, i + 1)

SetTagVars(s, pos, desc, cfg) ==
    LET s129 == IF Failed(s) THEN s
                ELSE IF KeyMissing(desc, "Driver.Tags") THEN Raise(s, "KeyError")
                ELSE s
        s130 == DebugFormat(s129, {1, 2}, 2)
    IN  IF Failed(s130) THEN s130
        ELSE TagLoop(s130, pos, desc.MachineName, StrSplit(desc.Tags, <<",">>), cfg, 1)

\* ---------------------------------------------------- lines 138 to 139
\* The value stands for the parsed descriptor.
AttrsValue(desc) == <<desc.MachineName, desc.DriverName, desc.IPAddress>> \o desc.Tags

SetVerbose(s, pos, desc, cfg) ==
    IF Failed(s) \/ ~cfg.verbose_output THEN s
    ELSE InvCall(s, pos, "set_variable",
                 <<desc.MachineName, "docker_machine_node_attributes">>,
                 SetVariable(s.inv, desc.MachineName,
                             Plain("docker_machine_node_attributes"), AttrsValue(desc)))

\* ---------------------------------------------------- lines 142 to 159
\* The three calls of the Constructable base class.  cfg.rules: "none" (no rule
\* configured), "ok" (the rules evaluate), "error" (a rule fails to evaluate, which
\* raises when strict and is skipped otherwise).
Constructed(s, pos, id, cfg, op, inv2) ==
    IF Failed(s) THEN s
    ELSE LET s1 == Emit(s, pos, op, <<id>>) IN
         IF cfg.rules = "ok" THEN [s1 EXCEPT !.inv = inv2]
         ELSE IF cfg.rules = "error" /\ cfg.strict THEN Raise(s1, "AnsibleError")
         ELSE s1

ApplyRules(s, pos, desc, cfg) ==
    LET id == desc.MachineName
        s146 == DebugFormat(s, {1, 2}, 2)
        s147 == IF Failed(s146) THEN s146
                ELSE Constructed(s146, pos, id, cfg, "compose",
                         SetVariable(s146.inv, id, Plain("composed"), <<"value">>))
        s151 == DebugFormat(s147, {1, 2}, 2)
        s152 == IF Failed(s151) THEN s151
                ELSE Constructed(s151, pos, id, cfg, "groups",
                         AddHostToGroup(AddGroup(s151.inv, "conditional"), id, "conditional"))
        s156 == DebugFormat(s152, {1, 2}, 2)
        s157 == IF Failed(s156) THEN s156
                ELSE Constructed(s156, pos, id, cfg, "keyed_groups",
                         AddHostToGroup(AddGroup(s156.inv, "keyed"), id, "keyed"))
    IN  DebugFormat(s157, {1}, 1)                                      \* line 159

\* ---------------------------------------------------- lines 94 to 159
\* The body of the loop of line 93 for the node at position pos, whose inspect
\* and env commands answer insp and env.
NodeBody(s, pos, node, insp, env, cfg) ==
    LET desc == insp.desc
        s95  == InspectNode(s, pos, node, insp)
        s101 == RegisterHost(s95, pos, desc)
        s108 == SetConnectionVars(s101, pos, desc)
        s112 == RunEnv(s108, pos, desc.MachineName, env)
        s124 == EnvLoop(s112, pos, desc.MachineName, env.text, 1)
        s136 == SetTagVars(s124, pos, desc, cfg)
        s139 == SetVerbose(s136, pos, desc, cfg)
    IN  ApplyRules(s139, pos, desc, cfg)

\* The words of the message of an exception lines 122 to 124 can raise:
\* IndexError from str.format, AttributeError from None.group(1).
ExcWords(e) ==
    CASE e = "IndexError" ->
            {"Replacement", "index", "1", "out", "of", "range", "for", "positional",
             "args", "tuple"}
      [] e = "AttributeError" ->
            {"'NoneType'", "object", "has", "no", "attribute", "'group'"}
      [] OTHER -> {}

\* ------------------------------------------------------------- inputs
SeqsUpTo(S, n) == UNION {[1..k -> S] : k \in 0..n}

MachineNames == {"m1", "m2"}
DriverNames == {"digitalocean", "virtualbox"}
TagSamples == {<<"a", ":", "b">>, <<"b">>}

Desc(m, d, ip, tags, missing) ==
    [MachineName |-> m, DriverName |-> d, IPAddress |-> ip, SSHPort |-> "22",
     SSHUser |-> "root", SSHKeyPath |-> "/root/.ssh/id_rsa", Tags |-> tags,
     missing |-> missing]

IPOf(d) == IF d = "digitalocean" THEN "134.209.204.160" ELSE "192.168.99.100"

BaseDesc == Desc("m1", "digitalocean", IPOf("digitalocean"), <<"a", ":", "b">>, {})

ValidDescs ==
    {Desc(m, d, IPOf(d), t, {}) : m \in MachineNames, d \in DriverNames, t \in TagSamples}

BrokenDescs == {[BaseDesc EXCEPT !.missing = {p}] : p \in RequiredPaths}

EnvFull ==
    << <<"DOCKER_TLS_VERIFY", "1">>, <<"DOCKER_HOST", "tcp://134.209.204.160:2376">>,
       <<"DOCKER_CERT_PATH", "/root/.docker/machine/machines/m1">>,
       <<"DOCKER_MACHINE_NAME", "m1">> >>

EnvNoHost == <<EnvFull[1], EnvFull[3], EnvFull[4]>>

Json(desc) == [kind |-> "json", desc |-> desc]
EnvText(text) == [kind |-> "text", text |-> text]
EnvFailed == [kind |-> "failed", text |-> <<>>]

\* What the tool answers for one listed node: the id `ls -q` prints, what
\* `inspect <id>` prints (or a failed command, or text that is no JSON) and what
\* `env --shell=bash <MachineName>` prints (or a failed command).
NodeAnswers ==
    {[node |-> d.MachineName, insp |-> Json(d), env |-> EnvText(EnvFull)] :
        d \in ValidDescs \cup BrokenDescs}
    \cup {[node |-> "m1", insp |-> [kind |-> k, desc |-> BaseDesc],
           env |-> EnvText(EnvFull)] : k \in {"failed", "malformed"}}
    \cup {[node |-> "m1", insp |-> Json(BaseDesc), env |-> e] :
            e \in {EnvFailed, EnvText(EnvNoHost)}}

\* What the tool answers in one pass: `ls -q` fails, or lists the nodes.
ToolAnswers ==
    {[ls |-> "failed", answers |-> <<>>]}
    \cup {[ls |-> "lines", answers |-> a] : a \in SeqsUpTo(NodeAnswers, MaxNodes)}

\* The options of lines 30 to 43 and of the `constructed` fragment.
Configs ==
    [split_tags : BOOLEAN, split_separator : {<<":">>}, verbose_output : BOOLEAN,
     strict : BOOLEAN, rules : {"none", "ok", "error"}, config_ok : BOOLEAN]

\* -------------------------------------------------------------- state
VARIABLES
    entry,      \* the method the caller calls: "parse" or "_populate"
    cfg,        \* the options
    tool,       \* what docker-machine answers during the pass
    pc,         \* the line the program is at
    nodes,      \* self.nodes
    idx,        \* the position of self.node in self.nodes
    inv,        \* self.inventory
    events,     \* commands run and inventory calls made, in order
    exc,        \* the exception in flight inside the try of line 90
    outcome,    \* what the caller observes
    failedAt,   \* the position of the node whose processing raised, 0 when none
    tagLog      \* how each tag element read was taken

vars == <<entry, cfg, tool, pc, nodes, idx, inv, events, exc, outcome, failedAt, tagLog>>

Running == [kind |-> "running", type |-> "none", cause |-> "none"]
Returned == [kind |-> "returned", type |-> "none", cause |-> "none"]
RaisedRaw(e) == [kind |-> "raised", type |-> e, cause |-> "none"]

\* Wrapped without the except clause: the exception leaves as it was raised.
WrappedUnwrapped(e) == RaisedRaw(e)

\* Lines 161 to 163: AnsibleError with the text of the original exception.
Wrapped(e) == [kind |-> "raised", type |-> "AnsibleError", cause |-> e]

Init ==
    /\ entry \in {"parse", "_populate"}
    /\ cfg \in Configs
    /\ entry = "_populate" => cfg.config_ok
    /\ tool \in ToolAnswers
    /\ pc = IF entry = "parse" THEN "parse_172" ELSE "populate_88"
    /\ nodes = <<>>
    /\ idx = 0
    /\ inv = EmptyInventory
    /\ events = <<>>
    /\ exc = NoExc
    /\ outcome = Running
    /\ failedAt = 0
    /\ tagLog = <<>>

\* Line 172: BaseInventoryPlugin.parse stores the inventory.
ParseSuper ==
    /\ pc = "parse_172"
    /\ pc' = "parse_173"
    /\ UNCHANGED <<entry, cfg, tool, nodes, idx, inv, events, exc, outcome, failedAt, tagLog>>

\* Line 173: _read_config_data raises on a file it cannot take.
ParseReadConfig ==
    /\ pc = "parse_173"
    /\ IF cfg.config_ok
       THEN pc' = "parse_174" /\ outcome' = outcome
       ELSE pc' = "done" /\ outcome' = RaisedRaw("AnsibleParserError")
    /\ UNCHANGED <<entry, cfg, tool, nodes, idx, inv, events, exc, failedAt, tagLog>>

\* Lines 174 and 175: the debug text is formatted, then _populate is called.
\* Nothing catches an exception here.
ParseDebugConfig ==
    /\ pc = "parse_174"
    /\ IF StrFormatRaises({1}, 1)
       THEN pc' = "done" /\ outcome' = RaisedRaw("IndexError")
       ELSE pc' = "populate_88" /\ outcome' = outcome
    /\ UNCHANGED <<entry, cfg, tool, nodes, idx, inv, events, exc, failedAt, tagLog>>

\* Line 88.
PopulateAddAll ==
    /\ pc = "populate_88"
    /\ inv' = AddGroup(inv, "all")
    /\ events' = Append(events, <<0, "add_group", <<"all">>>>)
    /\ pc' = "populate_92"
    /\ UNCHANGED <<entry, cfg, tool, nodes, idx, exc, outcome, failedAt, tagLog>>

\* Lines 91 and 92.
PopulateList ==
    /\ pc = "populate_92"
    /\ events' = Append(events, <<0, "ls", <<>>>>)
    /\ IF tool.ls = "failed"
       THEN pc' = "except" /\ exc' = "CalledProcessError" /\ nodes' = nodes
       ELSE /\ pc' = "loop"
            /\ exc' = exc
            /\ nodes' = [i \in 1..Len(tool.answers) |-> tool.answers[i].node]
    /\ UNCHANGED <<entry, cfg, tool, idx, inv, outcome, failedAt, tagLog>>

\* Line 93: the next node, or the end of _populate.
LoopNext ==
    /\ pc = "loop"
    /\ IF idx < Len(nodes)
       THEN idx' = idx + 1 /\ pc' = "body" /\ outcome' = outcome
       ELSE idx' = idx /\ pc' = "done" /\ outcome' = Returned
    /\ UNCHANGED <<entry, cfg, tool, nodes, inv, events, exc, failedAt, tagLog>>

\* Lines 94 to 159 for self.node.
ProcessNode ==
    /\ pc = "body"
    /\ LET s0 == [inv |-> inv, ev |-> events, exc |-> NoExc, tagLog |-> tagLog]
           s == NodeBody(s0, idx, nodes[idx], tool.answers[idx].insp,
                         tool.answers[idx].env, cfg)
       IN  /\ inv' = s.inv
           /\ events' = s.ev
           /\ tagLog' = s.tagLog
           /\ exc' = s.exc
           /\ failedAt' = IF Failed(s) THEN idx ELSE failedAt
           /\ pc' = IF Failed(s) THEN "except" ELSE "loop"
    /\ UNCHANGED <<entry, cfg, tool, nodes, idx, outcome>>

\* Lines 161 to 163.
ExceptHandler ==
    /\ pc = "except"
    /\ outcome' = Wrapped(exc)
    /\ exc' = NoExc
    /\ pc' = "done"
    /\ UNCHANGED <<entry, cfg, tool, nodes, idx, inv, events, failedAt, tagLog>>

Next ==
    \/ ParseSuper
    \/ ParseReadConfig
    \/ ParseDebugConfig
    \/ PopulateAddAll
    \/ PopulateList
    \/ LoopNext
    \/ ProcessNode
    \/ ExceptHandler

Spec == Init /\ [][Next]_vars

\* ----------------------------------------------------------------------
\* The tag code of lines 131 to 136 and the env code of lines 122 to 124, each
\* applied to inputs drawn from bounded sets, from the inventory that lines 97
\* to 101 leave for the host.
TagChars == {"a", "b", ":", ","}
TagStrings == SeqsUpTo(TagChars, MaxTagLen)
TagSeparators == {<<":">>, <<":", ":">>, <<>>}

EnvValues == {"", "x", "y"}
EnvLines == {<<EnvVarNames[i], v>> : i \in 1..Len(EnvVarNames), v \in EnvValues}
EnvTexts == SeqsUpTo(EnvLines, MaxEnvLines)

FnConfigs ==
    [split_tags : BOOLEAN, split_separator : TagSeparators, verbose_output : {TRUE},
     strict : {FALSE}, rules : {"none"}, config_ok : {TRUE}]

HostRegistered(desc) ==
    RegisterHost([inv |-> AddGroup(EmptyInventory, "all"), ev |-> <<>>, exc |-> NoExc,
                  tagLog |-> <<>>], 1, desc)

FnInit(name, start, descs, texts, configs) ==
    /\ entry = name
    /\ cfg \in configs
    /\ tool \in {[ls |-> "lines",
                  answers |-> <<[node |-> d.MachineName, insp |-> Json(d),
                                 env |-> EnvText(e)]>>] : d \in descs, e \in texts}
    /\ pc = start
    /\ nodes = <<tool.answers[1].node>>
    /\ idx = 1
    /\ inv = HostRegistered(tool.answers[1].insp.desc).inv
    /\ events = <<>>
    /\ exc = NoExc
    /\ outcome = Running
    /\ failedAt = 0
    /\ tagLog = <<>>

\* tags.split(',') of line 131 for the node in hand.
TagElems == StrSplit(tool.answers[1].insp.desc.Tags, <<",">>)

InitTags ==
    FnInit("tags", "fn_parse",
           {[BaseDesc EXCEPT !.Tags = raw] : raw \in TagStrings}, {EnvFull}, FnConfigs)

\* Lines 132, 133 and 135 for every element of the tag string.
ParseTagsFn ==
    /\ pc = "fn_parse"
    /\ tagLog' = [i \in 1..Len(TagElems) |->
                    ParseTag(TagElems[i], cfg.split_tags, cfg.split_separator)]
    /\ pc' = "fn_loop"
    /\ UNCHANGED <<entry, cfg, tool, nodes, idx, inv, events, exc, outcome, failedAt>>

\* The loop of lines 131 to 136.
TagLoopFn ==
    /\ pc = "fn_loop"
    /\ LET s0 == [inv |-> inv, ev |-> events, exc |-> NoExc, tagLog |-> <<>>]
           s == TagLoop(s0, 1, nodes[1], TagElems, cfg, 1)
       IN  /\ inv' = s.inv
           /\ events' = s.ev
           /\ exc' = s.exc
           /\ failedAt' = IF Failed(s) THEN 1 ELSE 0
    /\ pc' = "fn_done"
    /\ UNCHANGED <<entry, cfg, tool, nodes, idx, outcome, tagLog>>

SpecTags == InitTags /\ [][ParseTagsFn \/ TagLoopFn]_vars

InitEnv ==
    FnInit("env", "fn_env", {BaseDesc}, EnvTexts,
           {c \in FnConfigs : ~c.split_tags /\ c.split_separator = <<":">>})

\* The loop of lines 122 to 124.
EnvLoopFn ==
    /\ pc = "fn_env"
    /\ LET s0 == [inv |-> inv, ev |-> events, exc |-> NoExc, tagLog |-> <<>>]
           s == EnvLoop(s0, 1, nodes[1], tool.answers[1].env.text, 1)
       IN  /\ inv' = s.inv
           /\ events' = s.ev
           /\ exc' = s.exc
           /\ failedAt' = IF Failed(s) THEN 1 ELSE 0
    /\ pc' = "fn_done"
    /\ UNCHANGED <<entry, cfg, tool, nodes, idx, outcome, tagLog>>

SpecEnv == InitEnv /\ [][EnvLoopFn]_vars

\* ======================================================================
\* Properties
\* ======================================================================
Ended == pc = "done"
Answer(i) == tool.answers[i]
DescAt(i) == tool.answers[i].insp.desc

\* The env text holds NAME="value", value not empty, for each of the four names.
EnvHasAll(text) ==
    \A k \in 1..Len(EnvVarNames) :
        \E j \in 1..Len(text) : text[j][1] = EnvVarNames[k] /\ text[j][2] # ""

\* The value the env text gives a name: that of a line NAME="value".
EnvValuesOf(text, name) ==
    {<<text[j][2]>> : j \in {n \in 1..Len(text) : text[n][1] = name /\ text[n][2] # ""}}

\* The tool lists the node, inspect prints a descriptor with every required
\* field, and env prints the four values.
ValidAnswer(a) ==
    /\ a.insp.kind = "json"
    /\ a.insp.desc.missing = {}
    /\ a.env.kind = "text"
    /\ EnvHasAll(a.env.text)

AllValid == tool.ls = "lines" /\ \A i \in 1..Len(tool.answers) : ValidAnswer(Answer(i))

HostVars(graph, h) == {<<t[2], t[3]>> : t \in {u \in graph.vars : u[1] = h}}
VarIs(h, name, value) == <<h, name, value>> \in inv.vars
DriverGroupsOf(h) == {g \in inv.groups \ {"all", "conditional", "keyed"} : <<g, h>> \in inv.members}
EventsOf(pos, op) == {k \in 1..Len(events) : events[k][1] = pos /\ events[k][2] = op}

\* C1: a discovery pass that ends in failure, whatever the listing and wherever
\* the error was raised, leaves no host, no driver group, no group membership
\* and no host variable in the inventory.
C1_AllOrNothing ==
    (outcome.kind = "raised" \/ pc = "except") =>
        /\ inv.hosts = {}
        /\ inv.groups \subseteq {"all"}
        /\ inv.members = {}
        /\ inv.vars = {}

\* C1 witness: a pass over two listed nodes has ended in failure, the error
\* raised while the first node, whose answers are all valid, was processed.
C1_Witness ==
    /\ Ended
    /\ outcome.kind = "raised"
    /\ failedAt = 1
    /\ Len(nodes) = 2
    /\ ValidAnswer(Answer(1))

\* C5: an error raised while the node at position i is processed aborts the
\* pass: nothing (no command, no inventory call) is ever done for a later node,
\* the loop does not advance, and what the caller observes at the end is one
\* AnsibleError carrying the original exception.
C5_NodeErrorAborts ==
    failedAt # 0 =>
        /\ pc \in {"except", "done"}
        /\ idx = failedAt
        /\ \A k \in 1..Len(events) : events[k][1] <= failedAt
        /\ pc = "except" => exc # NoExc /\ outcome = Running
        /\ pc = "done" =>
            /\ outcome.kind = "raised"
            /\ outcome.type = "AnsibleError"
            /\ outcome.cause # "none"

\* C5 witness: the first of two listed nodes raised, and the caller of
\* _populate has observed the AnsibleError that carries the IndexError.
C5_Witness ==
    /\ Ended
    /\ entry = "_populate"
    /\ failedAt = 1
    /\ Len(nodes) = 2
    /\ outcome = [kind |-> "raised", type |-> "AnsibleError", cause |-> "IndexError"]

\* C3: parse() on a readable configuration with split_tags and separator ':',
\* the tool listing one node whose descriptor has every required field, whose
\* env text has the four values and whose tags each hold the separator once:
\* the pass returns, and the host is in `all` and in the DriverName group with
\* ansible_host = IPAddress, dm_<NAME> = the env value and dm_tag_<key> = value.
C3_EndToEnd ==
    ( /\ Ended
      /\ entry = "parse"
      /\ cfg.config_ok /\ cfg.split_tags /\ cfg.split_separator = <<":">>
      /\ cfg.rules # "error"
      /\ tool.ls = "lines" /\ Len(tool.answers) = 1
      /\ ValidAnswer(Answer(1))
      /\ DescAt(1).Tags = <<"a", ":", "b">> )
    => LET d == DescAt(1)
           h == d.MachineName
       IN  /\ outcome = Returned
           /\ <<"all", h>> \in inv.members
           /\ <<d.DriverName, h>> \in inv.members
           /\ VarIs(h, Plain("ansible_host"), <<d.IPAddress>>)
           /\ \A k \in 1..Len(EnvVarNames) :
                \E v \in EnvValuesOf(Answer(1).env.text, EnvVarNames[k]) :
                    VarIs(h, <<"dm_", <<EnvVarNames[k]>>>>, v)
           /\ VarIs(h, <<"dm_tag_", <<"a">>>>, <<"b">>)

Alone(a) ==
    NodeBody([inv |-> AddGroup(EmptyInventory, "all"), ev |-> <<>>, exc |-> NoExc,
              tagLog |-> <<>>], 1, a.node, a.insp, a.env, cfg)

\* C4: two listed nodes with valid answers and the same MachineName: when the
\* pass has ended the host is in `all` (once: membership is a set) and its
\* variables are exactly those the second node alone produces.
C4_SecondOverwritesFirst ==
    ( /\ Ended
      /\ entry = "_populate"
      /\ cfg.rules # "error"
      /\ AllValid /\ Len(tool.answers) = 2
      /\ DescAt(1).MachineName = DescAt(2).MachineName )
    => LET h == DescAt(2).MachineName IN
       /\ h \in inv.hosts
       /\ <<"all", h>> \in inv.members
       /\ HostVars(inv, h) = HostVars(Alone(Answer(2)).inv, h)

\* The rank of a step in the order the body of the loop has them.
StepRank(e) ==
    CASE e[2] = "inspect" -> 1
      [] e[2] = "add_host" \/ e[2] = "add_group" -> 2
      [] e[2] = "set_variable" /\ e[3][2] \in
            {"ansible_host", "ansible_port", "ansible_user", "ansible_ssh_common_args",
             "ansible_ssh_private_key_file"} -> 3
      [] e[2] = "env" -> 4
      [] e[2] = "set_variable" /\ e[3][2] = "dm_" -> 5
      [] e[2] = "set_variable" /\ e[3][2] = "dm_tag_" -> 6
      [] e[2] = "set_variable" /\ e[3][2] = "docker_machine_node_attributes" -> 7
      [] e[2] = "compose" -> 8
      [] e[2] = "groups" -> 9
      [] e[2] = "keyed_groups" -> 10
      [] OTHER -> 0

\* C9: in a pass over listed nodes with valid answers, `ls -q` is run once and
\* before any other command, the steps of a node follow the order of the loop body,
\* no step of a node comes before a step of an earlier node, and compose,
\* conditional groups and keyed groups are each called exactly once for every
\* listed node, after that node's variables are set.
C9_StrictOrder ==
    (Ended /\ entry = "_populate" /\ cfg.rules # "error" /\ AllValid) =>
        /\ Cardinality(EventsOf(0, "ls")) = 1
        /\ \A k \in 1..Len(events) :
             events[k][2] \in {"inspect", "env"} => \E j \in 1..(k - 1) : events[j][2] = "ls"
        /\ \A j, k \in 1..Len(events) :
             (j < k /\ events[j][1] >= 1) =>
                /\ events[j][1] <= events[k][1]
                /\ events[j][1] = events[k][1] => StepRank(events[j]) <= StepRank(events[k])
        /\ \A i \in 1..Len(nodes) :
             \A op \in {"compose", "groups", "keyed_groups"} :
                Cardinality(EventsOf(i, op)) = 1

\* How the tag parser is to take one element: a pair cut at the FIRST occurrence of
\* the separator when splitting is on and the separator occurs, else a bare tag.
FirstCut(elem, split, sep) ==
    IF split /\ StrContains(elem, sep)
    THEN LET i == StrFind(elem, sep, 1) IN
         <<"pair", SubSeq(elem, 1, i - 1), SubSeq(elem, i + Len(sep), Len(elem))>>
    ELSE <<"bare", elem, <<>>>>

\* C6: for every tag string, every (non-empty) separator and both values of
\* split_tags, each element of the string split on ',' is taken as a pair cut at
\* the first occurrence of the separator when split_tags is true and the
\* separator occurs in it (two or more separators still give one pair, no
\* error), and as a bare tag otherwise.
C6_TagParsing ==
    (pc \in {"fn_loop", "fn_done"} /\ Len(cfg.split_separator) > 0) =>
        /\ Len(tagLog) = Len(TagElems)
        /\ \A i \in 1..Len(TagElems) :
             tagLog[i] = FirstCut(TagElems[i], cfg.split_tags, cfg.split_separator)

\* C7: when every element of the tag string is a bare tag, the loop over the tags
\* ends without an exception and the host has a variable dm_tag_<name> for each.
C7_BareTagSetsVariable ==
    (pc = "fn_done" /\ \A i \in 1..Len(tagLog) : tagLog[i][1] = "bare") =>
        /\ exc = NoExc
        /\ \A i \in 1..Len(TagElems) :
             \E t \in inv.vars : t[1] = nodes[1] /\ t[2] = <<"dm_tag_", TagElems[i]>>

\* C8: when the env text holds NAME="value" for each of the four names, in any
\* order, the loop over the names ends without an exception and every dm_<NAME>
\* is that name's value; when one of the names does not occur, the loop fails
\* with an error whose message names a missing variable.
C8_EnvExtraction ==
    pc = "fn_done" =>
        LET text == Answer(1).env.text
            absent == {k \in 1..Len(EnvVarNames) :
                         \A j \in 1..Len(text) : text[j][1] # EnvVarNames[k]}
        IN  /\ EnvHasAll(text) =>
                /\ exc = NoExc
                /\ \A k \in 1..Len(EnvVarNames) :
                     \E v \in EnvValuesOf(text, EnvVarNames[k]) :
                        VarIs(nodes[1], <<"dm_", <<EnvVarNames[k]>>>>, v)
            /\ absent # {} =>
                /\ exc # NoExc
                /\ \E k \in absent : EnvVarNames[k] \in ExcWords(exc)

====
